---- MODULE Spec2Model ----
(***************************************************************************)
(* pyLODE, supermodel profile: the HTML renderer                           *)
(* (src/pylode/profiles/supermodel/html.py).                               *)
(*                                                                         *)
(* Modelled: get_headings, Supermodel.make_html and its passes, _make_toc  *)
(* (outline numbers, the nested list), the class and property sections'    *)
(* reference links and the class-hierarchy view.                           *)
(*                                                                         *)
(* A Python str is a sequence of string tokens (f-strings concatenate      *)
(* them).  A dominate node is a record [tag, id, cls, href, text, kids];   *)
(* a str child is a node of tag "#text" whose text holds the str.          *)
(***************************************************************************)
EXTENDS Integers, Sequences, FiniteSets, TLC

VARIABLES
    pc,               \* where make_html / _make_toc / get_headings stands
    model,            \* self.query: component_models, class_index
    doc,              \* self.doc, the rendered tree (without the TOC block)
    ncalls,           \* number of make_html calls started on this instance
    passno,           \* make_html: passes of the running call that completed
    headings,         \* _make_toc: headings (result of get_headings)
    pos,              \* _make_toc: headings whose loop iteration completed
    section_numbers,  \* _make_toc: section_numbers
    index,            \* _make_toc: index (0: key absent)
    previous_heading, \* _make_toc: previous_heading
    value,            \* _make_toc: value (local, survives loop iterations)
    toc,              \* the TOC block: node table, 1 = top_unordered_list
    error,            \* the exception that ended the call, or NoError
    stack,            \* _make_class_hierarchy: the frames of its running calls
    returned          \* what the make_html calls of this instance returned

vars == <<pc, model, doc, ncalls, passno, headings, pos, section_numbers, index,
          previous_heading, value, toc, error, stack, returned>>

docVars == <<model, doc, ncalls, passno>>

tocVars == <<headings, pos, section_numbers, index, previous_heading, value,
             toc, error>>

\* ------------------------------------------------------------------ bounds

\* Headings fed to _make_toc in SpecToc.
MaxHeadings == 7
\* Headings fed to _make_toc in SpecTocEntry (ids and child shapes vary).
MaxEntryHeadings == 3
\* Nodes added below the root of the tree get_headings walks in SpecHeadings.
MaxTreeNodes == 4
\* Nested calls of _make_class_hierarchy the model follows.
MaxDepth == 4
\* Calls of make_html on one instance.
MaxCalls == 2

\* ----------------------------------------------------------- Python values

None == <<"None">>
Unbound == <<"<unbound>">>
\* No exception was raised.
NoError == "None"

Range(s) == {s[i] : i \in 1..Len(s)}

RECURSIVE Flatten(_)
\* Concatenation of a sequence of sequences.
Flatten(ss) == IF ss = <<>> THEN <<>> ELSE Head(ss) \o Flatten(Tail(ss))

\* str(n) for an int n, as f"{n}" formats it.
IntStr(n) == <<ToString(n)>>

\* ------------------------------------------------------------ dominate nodes

El(tag, id, cls, href, kids) ==
    [tag |-> tag, id |-> id, cls |-> cls, href |-> href, text |-> <<>>,
     kids |-> kids]

\* A str child of a node.
Text(s) ==
    [tag |-> "#text", id |-> None, cls |-> None, href |-> None, text |-> s,
     kids |-> <<>>]

\* previous_heading = None
NoHeading == El("None", None, None, None, <<>>)

\* hasattr(node, "children"): every dominate tag has it, a str has not.
HasChildren(node) == node.tag # "#text"

\* str(node) as an f-string formats a child: a str is itself, a tag renders.
StrOf(node) ==
    IF node.tag = "#text" THEN node.text
    ELSE <<"<", node.tag, ">">> \o Flatten([i \in 1..Len(node.kids) |->
             IF node.kids[i].tag = "#text" THEN node.kids[i].text
             ELSE <<"<", node.kids[i].tag, "/>">>]) \o <<"</", node.tag, ">">>

\* Mutant: h4 is left out of the isinstance test.
is_heading_no_h4(node) == node.tag \in {"h2", "h3"}

\* is_heading(doc)
is_heading(node) == node.tag \in {"h2", "h3", "h4"}

RECURSIVE get_headings(_)
RECURSIVE get_headings_of_children(_)
\* get_headings(doc): the loop over doc.children.
get_headings_of_children(kids) ==
    IF kids = <<>> THEN <<>>
    ELSE (IF is_heading(Head(kids)) THEN <<Head(kids)>>
          ELSE get_headings(Head(kids)))
         \o get_headings_of_children(Tail(kids))

get_headings(node) ==
    IF HasChildren(node) THEN get_headings_of_children(node.kids) ELSE <<>>

\* --------------------------------------------------------------- _make_toc

\* int(str(type(heading))[-3:-2])
HeadingLevel(heading) ==
    CASE heading.tag = "h2" -> 2
      [] heading.tag = "h3" -> 3
      [] heading.tag = "h4" -> 4

\* section_numbers as _make_toc initialises it.
InitSectionNumbers == [d \in 1..4 |-> 0]

\* index = {} : no key present.
InitIndex == [l \in 2..4 |-> 0]

\* The TOC block created under self.header: the top-level list is node 1 of
\* the table (the div and its title are added when the block is rendered).
TocNode(tag, cls, text, href, kids) ==
    [tag |-> tag, cls |-> cls, text |-> text, href |-> href, kids |-> kids]

InitToc == <<TocNode("ul", <<"sectlevel1">>, <<>>, None, <<>>)>>

\* Mutant: the reset on descent is left out.
NextSectionNumbersNoReset(sn, previous_heading_level, heading_level) ==
    [sn EXCEPT ![heading_level - 1] = @ + 1]

\* Mutant: an ascent also clears the counters of the deeper levels.
NextSectionNumbersResetDeeper(sn, previous_heading_level, heading_level) ==
    LET inc == [sn EXCEPT ![heading_level - 1] = @ + 1]
    IN  IF previous_heading_level < heading_level
        THEN [inc EXCEPT ![heading_level - 1] = 1]
        ELSE [d \in 1..4 |-> IF d > heading_level - 1 THEN 0 ELSE inc[d]]

\* section_numbers[heading_level - 1] += 1, then the reset on descent.
NextSectionNumbers(sn, previous_heading_level, heading_level) ==
    LET inc == [sn EXCEPT ![heading_level - 1] = @ + 1]
    IN  IF previous_heading_level < heading_level
        THEN [inc EXCEPT ![heading_level - 1] = 1]
        ELSE inc

\* Mutant: the minor number is left out of a three-level number.
SectionNumberNoMinor(sn, heading_level) ==
    CASE heading_level - 1 = 1 -> IntStr(sn[1]) \o <<".", " ">>
      [] heading_level - 1 = 2 ->
            IntStr(sn[1]) \o <<".">> \o IntStr(sn[2]) \o <<".", " ">>
      [] heading_level - 1 = 3 ->
            IntStr(sn[1]) \o <<".">> \o IntStr(sn[3]) \o <<".", " ">>
      [] OTHER -> <<>>

\* section_number: f"{major}. ", f"{major}.{minor}. ", f"{major}.{minor}.{patch}. "
SectionNumber(sn, heading_level) ==
    CASE heading_level - 1 = 1 -> IntStr(sn[1]) \o <<".", " ">>
      [] heading_level - 1 = 2 ->
            IntStr(sn[1]) \o <<".">> \o IntStr(sn[2]) \o <<".", " ">>
      [] heading_level - 1 = 3 ->
            IntStr(sn[1]) \o <<".">> \o IntStr(sn[2]) \o <<".">>
            \o IntStr(sn[3]) \o <<".", " ">>
      [] OTHER -> <<>>

\* The label picked from the heading's children; old is the value the local
\* variable holds from the iteration before (Unbound in the first one).
HeadingValue(heading, old) ==
    IF Len(heading.kids) > 1
    THEN IF ~HasChildren(heading.kids[2])
         THEN [err |-> "AttributeError", val |-> old]
         ELSE IF Len(heading.kids[2].kids) > 0
              THEN [err |-> NoError, val |-> StrOf(heading.kids[2].kids[1])]
              ELSE IF old = Unbound
                   THEN [err |-> "UnboundLocalError", val |-> old]
                   ELSE [err |-> NoError, val |-> old]
    ELSE IF Len(heading.kids) = 1 /\ heading.kids[1].tag = "#text"
         THEN [err |-> NoError, val |-> heading.kids[1].text]
         ELSE [err |-> NoError, val |-> <<>>]

\* Mutant: the id is formatted into the href without the test for absence.
HeadingHrefNoTest(heading) == <<"#">> \o heading.id

\* heading_value_component: the href of the entry's link.
HeadingHref(heading) ==
    IF heading.id # None /\ heading.id # <<>>
    THEN <<"#">> \o heading.id
    ELSE <<"#">>

\* heading_value_component(heading, value): li(a(value, href=href)); the a is
\* kept in the li's text and href, kids are what is added to the li later.
heading_value_component(heading, val) ==
    TocNode("li", None, val, HeadingHref(heading), <<>>)

\* parent.add(child) / the exit of "with parent:": child becomes the last
\* child of parent.
AddChild(t, parent, child) == [t EXCEPT ![parent].kids = Append(@, child)]

\* The three placement branches of the loop body. Returns the new table and
\* index, or the KeyError of a subscript on an absent key.
Place(t, idx, previous_heading_level, heading_level, component) ==
    IF previous_heading_level = heading_level
    THEN IF idx[heading_level] = 0
         THEN [err |-> "KeyError", toc |-> t, index |-> idx]
         ELSE [err |-> NoError,
               toc |-> AddChild(Append(t, component), idx[heading_level],
                                Len(t) + 1),
               index |-> idx]
    ELSE IF previous_heading_level < heading_level
    THEN IF idx[heading_level - 1] = 0
         THEN [err |-> "KeyError", toc |-> t, index |-> idx]
         ELSE LET li_id == Len(t) + 1
                  ul_id == Len(t) + 2
                  unordered_list ==
                      TocNode("ul", <<"mb-0">>, <<>>, None, <<li_id>>)
              IN  [err |-> NoError,
                   toc |-> AddChild(Append(Append(t, component),
                                           unordered_list),
                                    idx[heading_level - 1], ul_id),
                   index |-> [idx EXCEPT ![heading_level] = li_id]]
    ELSE IF idx[heading_level] = 0
         THEN [err |-> "KeyError", toc |-> t, index |-> idx]
         ELSE LET li_id == Len(t) + 1
              IN  [err |-> NoError,
                   toc |-> AddChild(Append(t, component), idx[heading_level],
                                    li_id),
                   index |-> [idx EXCEPT ![heading_level] = li_id]]

\* One iteration of "for heading in headings". An exception leaves what the
\* iteration had assigned before it and ends the call.
TocIter(heading) ==
    LET first == previous_heading = NoHeading
        previous_heading_level ==
            IF first THEN 2 ELSE HeadingLevel(previous_heading)
        idx0 == IF first THEN [index EXCEPT ![2] = 1] ELSE index
        heading_level == HeadingLevel(heading)
        sn == NextSectionNumbers(section_numbers, previous_heading_level,
                                 heading_level)
        section_number == SectionNumber(sn, heading_level)
        hv == HeadingValue(heading, value)
        val == section_number \o hv.val
        placed == Place(toc, idx0, previous_heading_level, heading_level,
                        heading_value_component(heading, val))
    IN  /\ section_numbers' = sn
        /\ IF hv.err # NoError
           THEN /\ error' = hv.err
                /\ pc' = "raised"
                /\ index' = idx0
                /\ UNCHANGED <<value, toc, previous_heading, pos>>
           ELSE /\ value' = val
                /\ IF placed.err # NoError
                   THEN /\ error' = placed.err
                        /\ pc' = "raised"
                        /\ index' = idx0
                        /\ UNCHANGED <<toc, previous_heading, pos>>
                   ELSE /\ toc' = placed.toc
                        /\ index' = placed.index
                        /\ previous_heading' = heading
                        /\ pos' = pos + 1
                        /\ UNCHANGED <<error, pc>>

\* ------------------------------------------------------ headings of SpecToc

\* A heading as component.h2/h3/h4 renders it with a permalink: an anchor
\* followed by a link holding the title.
PermalinkKids(title, fragment) ==
    <<El("a", None, <<"anchor">>, <<"#">> \o fragment, <<>>),
      El("a", None, <<"link">>, <<"#">> \o fragment, <<Text(title)>>)>>

HTag(level) == CASE level = 2 -> "h2" [] level = 3 -> "h3" [] level = 4 -> "h4"

\* The n-th heading of a synthetic document: its label names its position.
SynthLabel(n) == <<"L" \o ToString(n)>>
SynthId(n) == <<"l" \o ToString(n)>>

RegularHeading(level, n) ==
    El(HTag(level), SynthId(n), None, None,
       PermalinkKids(SynthLabel(n), SynthId(n)))

\* ------------------------------------------------------------------ SpecToc

InitTocState ==
    /\ headings = <<>>
    /\ pos = 0
    /\ section_numbers = InitSectionNumbers
    /\ index = InitIndex
    /\ previous_heading = NoHeading
    /\ value = Unbound
    /\ toc = InitToc
    /\ error = NoError

InitToc0 ==
    /\ pc = "toc"
    /\ model = None
    /\ doc = None
    /\ ncalls = 0
    /\ passno = 0
    /\ InitTocState
    /\ stack = <<>>
    /\ returned = <<>>

\* _make_toc meets the next heading of a document of headings of any levels.
TocFeed ==
    /\ pc = "toc"
    /\ Len(headings) < MaxHeadings
    /\ \E level \in 2..4 :
          LET h == RegularHeading(level, Len(headings) + 1)
          IN  /\ headings' = Append(headings, h)
              /\ TocIter(h)
    /\ UNCHANGED docVars
    /\ UNCHANGED stack
    /\ UNCHANGED returned

\* The loop ends: _make_toc returns.
TocReturn ==
    /\ pc = "toc"
    /\ pos = Len(headings)
    /\ pc' = "done"
    /\ UNCHANGED <<docVars, tocVars>>
    /\ UNCHANGED stack
    /\ UNCHANGED returned

NextToc == TocFeed \/ TocReturn

SpecToc == InitToc0 /\ [][NextToc]_vars

\* ------------------------------------------------------------- SpecTocEntry

\* The children a heading node can have: a single str (component.h2 without
\* permalink), an anchor and a link holding the title (with permalink), an
\* anchor and a link without children, an anchor and a str, no children.
Shapes == {"plain", "permalink", "emptylink", "strpair", "nokids"}

ShapeKids(shape, title, fragment) ==
    CASE shape = "plain" -> <<Text(title)>>
      [] shape = "permalink" -> PermalinkKids(title, fragment)
      [] shape = "emptylink" ->
            <<El("a", None, <<"anchor">>, <<"#">> \o fragment, <<>>),
              El("a", None, <<"link">>, <<"#">> \o fragment, <<>>)>>
      [] shape = "strpair" ->
            <<El("a", None, <<"anchor">>, <<"#">> \o fragment, <<>>),
              Text(title)>>
      [] shape = "nokids" -> <<>>

AnyHeading(level, n, hasId, shape) ==
    El(HTag(level), IF hasId THEN SynthId(n) ELSE None, None, None,
       ShapeKids(shape, SynthLabel(n), SynthId(n)))

\* _make_toc meets the next heading: any level, with or without an id
\* attribute, with any shape of children.
TocFeedAny ==
    /\ pc = "toc"
    /\ Len(headings) < MaxEntryHeadings
    /\ \E level \in 2..4, hasId \in BOOLEAN, shape \in Shapes :
          LET h == AnyHeading(level, Len(headings) + 1, hasId, shape)
          IN  /\ headings' = Append(headings, h)
              /\ TocIter(h)
    /\ UNCHANGED docVars
    /\ UNCHANGED stack
    /\ UNCHANGED returned

NextTocEntry == TocFeedAny \/ TocReturn

SpecTocEntry == InitToc0 /\ [][NextTocEntry]_vars

\* ------------------------------------------------------------- SpecHeadings

\* A path is the sequence of child positions that leads from the root to a node.
RECURSIVE NodeAt(_, _)
NodeAt(node, path) ==
    IF path = <<>> THEN node ELSE NodeAt(node.kids[Head(path)], Tail(path))

RECURSIVE Paths(_)
\* The paths of all nodes of a tree.
Paths(node) ==
    {<<>>} \cup UNION {{<<k>> \o q : q \in Paths(node.kids[k])} :
                       k \in 1..Len(node.kids)}

RECURSIVE AddAt(_, _, _)
\* node.add(child) on the node at path: child becomes its last child.
AddAt(node, path, child) ==
    IF path = <<>> THEN [node EXCEPT !.kids = Append(@, child)]
    ELSE [node EXCEPT !.kids[Head(path)] = AddAt(@, Tail(path), child)]

\* The tags of the nodes of a tree: a container, the three headings, a heading
\* that is not collected, a str.
TreeTags == {"div", "h2", "h3", "h4", "#text"}

\* A node of the tree, named by the place it is added at.
TreeNode(tag, path) ==
    LET name == [i \in 1..Len(path) |-> ToString(path[i])]
    IN  IF tag = "#text" THEN Text(name) ELSE El(tag, name, None, None, <<>>)

InitHeadings ==
    /\ pc = "tree"
    /\ model = None
    /\ \E tag \in {"div", "h3", "#text"} : doc = TreeNode(tag, <<>>)
    /\ ncalls = 0
    /\ passno = 0
    /\ InitTocState
    /\ stack = <<>>
    /\ returned = <<>>

\* The renderer adds a node as the last child of a node that has children.
TreeAdd ==
    /\ pc = "tree"
    /\ Cardinality(Paths(doc)) <= MaxTreeNodes
    /\ \E path \in Paths(doc), tag \in TreeTags :
          /\ HasChildren(NodeAt(doc, path))
          /\ doc' = AddAt(doc, path,
                          TreeNode(tag, path \o <<Len(NodeAt(doc, path).kids) + 1>>))
    /\ UNCHANGED <<pc, model, ncalls, passno, tocVars>>
    /\ UNCHANGED stack
    /\ UNCHANGED returned

\* headings = get_headings(doc)
TreeCollect ==
    /\ pc = "tree"
    /\ headings' = get_headings(doc)
    /\ pc' = "collected"
    /\ UNCHANGED <<docVars, pos, section_numbers, index, previous_heading,
                   value, toc, error>>
    /\ UNCHANGED stack
    /\ UNCHANGED returned

NextHeadings == TreeAdd \/ TreeCollect

SpecHeadings == InitHeadings /\ [][NextHeadings]_vars

\* ------------------------------------------------- the model make_html renders

\* Names of the classes, the property and the component models of the
\* ontologies make_html is run on. An entity is referred to by its name; its
\* name attribute is the str of that name, its iri attribute is ClassIri etc.
ClassNames == {"A", "B", "C"}
PropName == "P"
NoRef == ""

Name(ref) == <<ref>>
ClassIri(ref) == <<"http://example.org/cls/" \o ref>>
PropIri(ref) == <<"http://example.org/prop/" \o ref>>
ModuleIri(ref) == <<"http://example.org/mod/" \o ref>>

\* The classes of a set in the order the query layer lists them.
ClassSeq(S) == SelectSeq(<<"A", "B", "C">>, LAMBDA c : c \in S)

\* cls.subclasses for each class: the subclass relations of the models.
SubclassChoices ==
    {[c \in ClassNames |->
        CASE c = "A" -> a [] c = "B" -> b [] OTHER -> <<>>] :
     a \in {<<>>, <<"B">>, <<"C">>, <<"B", "C">>}, b \in {<<>>, <<"C">>}}

\* cls.superclasses: the classes that list c among their subclasses.
SuperclassesOf(sub, c) == ClassSeq({d \in ClassNames : c \in Range(sub[d])})

\* A row of cls.properties.
PropertyView ==
    [name |-> PropName, value_type |-> "B", value_class_types |-> <<"C", "A">>,
     belongs_to_class |-> NoRef]

\* A component model: its name, the classes it documents and its properties.
ComponentModel(name, classes, local, sub, props) ==
    [name |-> name,
     classes |-> ClassSeq(classes),
     top_level_classes |->
         ClassSeq({c \in classes :
                      \A d \in local : c \notin Range(sub[d])}),
     annotation_properties |-> <<>>,
     datatype_properties |-> <<>>,
     object_properties |-> props,
     ontology_properties |-> <<>>]

\* The object properties of the first component model: none, the property P,
\* or a property that has the name of class A.
PropertyLists == {<<>>, <<PropName>>, <<"A">>}

\* self.query of an ontology whose documented classes are local, in one or
\* two component models, with the property sections of props, with or
\* without a property row in the section of class A.
Query(local, sub, nModels, props, withRow) ==
    [class_index |-> {ClassIri(c) : c \in local},
     subclasses |-> sub,
     superclasses |-> [c \in ClassNames |-> SuperclassesOf(sub, c)],
     properties |-> [c \in ClassNames |->
                        IF withRow /\ c = "A" THEN <<PropertyView>> ELSE <<>>],
     domain_includes |-> <<"A", "C">>,
     range_includes |-> <<"B">>,
     component_models |->
         IF nModels = 1
         THEN <<ComponentModel("M1", local, local, sub,
                               props)>>
         ELSE <<ComponentModel("M1", local \cap {"A", "B"}, local, sub,
                               props),
                ComponentModel("M2", local \cap {"C"}, local, sub, <<>>)>>]

Queries ==
    {Query(local, sub, nModels, props, withRow) :
        local \in SUBSET ClassNames, sub \in SubclassChoices,
        nModels \in {1, 2}, props \in PropertyLists, withRow \in BOOLEAN}

\* --------------------------------------------------- helpers of the renderer

MODULE_STRING(name) == <<"Module: ">> \o name
CLASS_STRING(name) == name
ANNOTATION_PROPERTY_STRING(name) == name

\* The anchor id of one piece of a label.
Slug(t) ==
    CASE t = "A" -> "a" [] t = "B" -> "b" [] t = "C" -> "c" [] t = "P" -> "p"
      [] t = "M1" -> "m1" [] t = "M2" -> "m2"
      [] t = "Module: " -> "module-"
      [] t = " - " -> "-"
      [] t = "Classes" -> "classes"
      [] t = "Object Properties" -> "object-properties"
      [] t = "Class Hierarchy" -> "class-hierarchy"
      [] t = "Classes and Properties" -> "classes-and-properties"
      [] OTHER -> t

\* fragment.make_html_fragment: a pure function of the label.
make_html_fragment(label) == [i \in 1..Len(label) |-> Slug(label[i])]

\* component.external_link(text, href)
external_link(text, href) ==
    El("a", None, <<"external-link">>, href, <<Text(text)>>)

\* dominate a(text, href=href)
A(text, href) == El("a", None, None, href, <<Text(text)>>)

\* component.h2 .. h6 (title, has_permalink, identifier)
H(tag, title, has_permalink, identifier) ==
    LET fragment ==
            make_html_fragment(IF identifier = None THEN title ELSE identifier)
    IN  El(tag, fragment, None, None,
           IF has_permalink THEN PermalinkKids(title, fragment)
           ELSE <<Text(title)>>)

Div(cls, kids) == El("div", None, cls, None, kids)
Hr == El("hr", None, None, None, <<>>)

\* The items of a loop that puts an hr between two items.
WithRules(items) ==
    Flatten([i \in 1..Len(items) |->
                IF i # Len(items) THEN <<items[i], Hr>> ELSE <<items[i]>>])

\* ------------------------------------- _make_component_model_class / _property

\* Mutant: the reference is linked internally whether or not it is local.
SuperclassLinkAlwaysInternal(q, ref) ==
    A(Name(ref), <<"#">> \o make_html_fragment(CLASS_STRING(Name(ref))))

\* The link of an item of "Subclass of".
SuperclassLink(q, ref) ==
    IF ClassIri(ref) \in q.class_index
    THEN A(Name(ref), <<"#">> \o make_html_fragment(CLASS_STRING(Name(ref))))
    ELSE external_link(Name(ref), ClassIri(ref))

\* The link of an item of "Superclass of".
SubclassLink(q, ref) ==
    IF ClassIri(ref) \in q.class_index
    THEN A(Name(ref), <<"#">> \o make_html_fragment(CLASS_STRING(Name(ref))))
    ELSE external_link(Name(ref), ClassIri(ref))

\* The link of the "Value type" cell.
ValueTypeLink(q, ref) ==
    IF ClassIri(ref) \in q.class_index
    THEN A(Name(ref), <<"#">> \o make_html_fragment(CLASS_STRING(Name(ref))))
    ELSE external_link(Name(ref), ClassIri(ref))

\* A link of the "Value class type" cell.
ValueClassTypeLink(q, ref) ==
    IF ClassIri(ref) \in q.class_index
    THEN A(Name(ref), <<"#">> \o make_html_fragment(CLASS_STRING(Name(ref))))
    ELSE external_link(Name(ref), ClassIri(ref))

\* The link of an item of "Domain includes:".
DomainIncludesLink(q, ref) ==
    IF ClassIri(ref) \in q.class_index
    THEN A(Name(ref), <<"#">> \o make_html_fragment(CLASS_STRING(Name(ref))))
    ELSE external_link(Name(ref), ClassIri(ref))

\* The link of an item of "Range includes:".
RangeIncludesLink(q, ref) ==
    IF ClassIri(ref) \in q.class_index
    THEN A(Name(ref), <<"#">> \o make_html_fragment(CLASS_STRING(Name(ref))))
    ELSE external_link(Name(ref), ClassIri(ref))

\* The ul of a "Subclass of" / "Superclass of" block.
LinkList(links) ==
    Div(<<"sect5">>, <<Div(<<"ulist">>, <<El("ul", None, None, None,
        [i \in 1..Len(links) |->
            El("li", None, None, None,
               <<El("p", None, None, None, <<links[i]>>)>>)])>>)>>)

Td(kids) == El("td", None, <<"tableblock halign-left valign-top">>, None, kids)

\* A row of the properties table of a class section (the description is
\* absent, the cardinality is unbounded).
PropertyRow(q, property) ==
    El("tr", None, None, None,
       <<Td(<<A(Name(property.name),
               <<"#">> \o make_html_fragment(CLASS_STRING(Name(property.name))))>>
            \o (IF property.belongs_to_class # NoRef
                THEN <<El("p", None, <<"tableblock">>, None,
                          <<El("em", None, None, None,
                               <<Text(<<"From ">>),
                                 A(Name(property.belongs_to_class),
                                   <<"#">> \o make_html_fragment(CLASS_STRING(
                                       Name(property.belongs_to_class))))>>)>>)>>
                ELSE <<>>)),
         Td(<<El("p", None, None, None, <<>>)>>),
         Td(<<El("p", None, <<"tableblock">>, None, <<Text(<<"[0..*]">>)>>)>>),
         Td(IF property.value_type # NoRef
            THEN <<ValueTypeLink(q, property.value_type)>> ELSE <<>>),
         Td(IF property.value_class_types # <<>>
            THEN <<El("p", None, <<"tableblock">>, None,
                      [i \in 1..Len(property.value_class_types) |->
                          ValueClassTypeLink(q, property.value_class_types[i])])>>
            ELSE <<>>)>>)

PropertiesTable(q, properties) ==
    Div(<<"sect5 overflow-x-auto">>, <<El("table", None, None, None,
        <<El("thead", None, None, None, <<El("tr", None, None, None,
             [i \in 1..5 |-> El("th", None, None, None, <<>>)])>>),
          El("tbody", None, None, None,
             [i \in 1..Len(properties) |-> PropertyRow(q, properties[i])])>>)>>)

\* _make_component_model_class(cls) for a class without description, notes,
\* is_defined_by and examples.
make_component_model_class(q, cls) ==
    Div(<<"sect3">>,
        <<H("h4", CLASS_STRING(Name(cls)), TRUE, None),
          El("p", None, <<"overflow-x-auto">>, None,
             <<Text(<<"IRI:">>), external_link(ClassIri(cls), ClassIri(cls))>>)>>
        \o (IF q.superclasses[cls] # <<>>
            THEN <<H("h5", <<"Subclass of">>, FALSE, None),
                   LinkList([i \in 1..Len(q.superclasses[cls]) |->
                                SuperclassLink(q, q.superclasses[cls][i])])>>
            ELSE <<>>)
        \o (IF q.subclasses[cls] # <<>>
            THEN <<H("h5", <<"Superclass of">>, FALSE, None),
                   LinkList([i \in 1..Len(q.subclasses[cls]) |->
                                SubclassLink(q, q.subclasses[cls][i])])>>
            ELSE <<>>)
        \o (IF q.properties[cls] # <<>>
            THEN <<H("h5", <<"Properties">>, FALSE, None),
                   PropertiesTable(q, q.properties[cls])>>
            ELSE <<>>))

\* The p and ul of "Domain includes:" / "Range includes:".
IncludesList(title, links) ==
    <<El("p", None, None, None, <<Text(title)>>),
      El("ul", None, None, None,
         [i \in 1..Len(links) |-> El("li", None, None, None, <<links[i]>>)])>>

\* _make_component_model_property(prop) for a property without description,
\* notes, super properties and is_defined_by.
make_component_model_property(q, prop) ==
    Div(<<"sect3">>,
        <<H("h4", ANNOTATION_PROPERTY_STRING(Name(prop)), TRUE, None),
          El("p", None, <<"overflow-x-auto">>, None,
             <<Text(<<"IRI:">>), external_link(PropIri(prop), PropIri(prop))>>)>>
        \o (IF q.domain_includes # <<>>
            THEN IncludesList(<<"Domain includes:">>,
                     [i \in 1..Len(q.domain_includes) |->
                         DomainIncludesLink(q, q.domain_includes[i])])
            ELSE <<>>)
        \o (IF q.range_includes # <<>>
            THEN IncludesList(<<"Range includes:">>,
                     [i \in 1..Len(q.range_includes) |->
                         RangeIncludesLink(q, q.range_includes[i])])
            ELSE <<>>))

\* One of the four property groups of _make_component_model_core.
PropertyGroup(q, component_model, title, props) ==
    IF props # <<>>
    THEN <<Hr,
           Div(<<"sect2">>,
               <<H("h3", <<title>>, FALSE,
                   Name(component_model.name) \o <<" - ", title>>), Hr>>
               \o WithRules([i \in 1..Len(props) |->
                                make_component_model_property(q, props[i])]))>>
    ELSE <<>>

\* _make_component_model_core(component_model): the nodes it adds.
make_component_model_core(q, component_model) ==
    <<Div(<<"sect2">>,
          <<H("h3", <<"Classes">>, FALSE,
              Name(component_model.name) \o <<" - ", "Classes">>), Hr>>
          \o WithRules([i \in 1..Len(component_model.classes) |->
                make_component_model_class(q, component_model.classes[i])]))>>
    \o PropertyGroup(q, component_model, "Annotation Properties",
                     component_model.annotation_properties)
    \o PropertyGroup(q, component_model, "Datatype Properties",
                     component_model.datatype_properties)
    \o PropertyGroup(q, component_model, "Object Properties",
                     component_model.object_properties)
    \o PropertyGroup(q, component_model, "Ontology Properties",
                     component_model.ontology_properties)

\* _make_component_model(component_model), without description and examples.
make_component_model(q, component_model) ==
    Div(<<"sect1">>,
        <<H("h2", MODULE_STRING(Name(component_model.name)), TRUE, None),
          Div(<<"sect2">>,
              <<Div(<<"paragraph">>,
                    <<El("p", None, None, None,
                         <<Text(<<"IRI:">>),
                           external_link(ModuleIri(component_model.name),
                                         ModuleIri(component_model.name))>>)>>),
                Hr>>
              \o make_component_model_core(q, component_model))>>)

\* ---------------------------------------------------- the class-hierarchy view

\* Mutant: the length of subclasses decides.
class_has_subclasses(q, cls) == q.subclasses[cls] # <<>>

\* _class_has_valid_subclasses(cls)
class_has_valid_subclasses(q, cls) ==
    Cardinality({i \in 1..Len(q.subclasses[cls]) :
                    ClassIri(q.subclasses[cls][i]) \in q.class_index}) # 0

\* The _class of the span of a class item.
HierarchyMarker(q, cls) ==
    IF class_has_valid_subclasses(q, cls) THEN <<"hierarchy-node">>
    ELSE IF q.subclasses[cls] # <<>> THEN <<"hierarchy-node-leaf">>
    ELSE <<"hierarchy-node-leaf">>

\* The link of a class item.
HierarchyLink(q, cls) ==
    A(Name(cls), <<"#">> \o make_html_fragment(CLASS_STRING(Name(cls))))

\* Mutant: the recursion is taken only when a subclass is documented.
HierarchyDescendsIfValid(q, cls) == class_has_valid_subclasses(q, cls)

\* Mutant: a class that is its own subclass is not followed.
HierarchyDescendsNotIntoItself(q, cls) ==
    q.subclasses[cls] # <<>> /\ cls \notin Range(q.subclasses[cls])

\* if cls.subclasses: the item gets the list of the subclasses.
HierarchyDescends(q, cls) == q.subclasses[cls] # <<>>

RECURSIVE make_class_hierarchy(_, _)
\* _make_class_hierarchy(classes)
make_class_hierarchy(q, classes) ==
    El("ul", None, <<"nested-hierarchy-list">>, None,
       [i \in 1..Len(classes) |->
           El("li", None, None, None,
              <<El("span", None, HierarchyMarker(q, classes[i]), None, <<>>),
                HierarchyLink(q, classes[i])>>
              \o (IF HierarchyDescends(q, classes[i])
                  THEN <<make_class_hierarchy(q, q.subclasses[classes[i]])>>
                  ELSE <<>>))])

\* The link of the item of a component model.
ModuleLink(component_model) ==
    A(Name(component_model.name),
      <<"#">> \o make_html_fragment(MODULE_STRING(Name(component_model.name))))

\* _make_class_hierarchy_top_level(): the nodes it adds.
make_class_hierarchy_top_level(q) ==
    <<H("h2", <<"Class Hierarchy">>, TRUE, None),
      Div(<<"class-hierarchy">>,
          <<El("ul", None, <<"hierarchy-list">>, None,
               [i \in 1..Len(q.component_models) |->
                   El("li", None, None, None,
                      <<El("span", None, <<"hierarchy-node">>, None, <<>>),
                        ModuleLink(q.component_models[i])>>
                      \o (IF q.component_models[i].top_level_classes # <<>>
                          THEN <<make_class_hierarchy(q,
                                    q.component_models[i].top_level_classes)>>
                          ELSE <<>>))])>>),
      El("style", None, None, None, <<>>),
      El("script", None, None, None, <<>>)>>

\* _make_component_models(): the div added to self.content.
make_component_models(q) ==
    Div(<<"sect1">>,
        make_class_hierarchy_top_level(q)
        \o (IF Len(q.component_models) = 1
            THEN <<H("h2", <<"Classes and Properties">>, FALSE, None)>>
                 \o make_component_model_core(q, q.component_models[1])
            ELSE [i \in 1..Len(q.component_models) |->
                     make_component_model(q, q.component_models[i])]))

\* ------------------------------------------------------------------ make_html

\* self.doc as __init__ leaves it: dominate.document(title=title).
InitDoc ==
    El("html", None, None, None,
       <<El("head", None, None, None, <<El("title", None, None, None, <<>>)>>),
         El("body", None, None, None, <<>>)>>)

\* _make_head with include_css: two style nodes, four links, the meta, the
\* schema.org script.
make_head(d) ==
    [d EXCEPT !.kids[1].kids = @ \o
        <<El("style", None, None, None, <<>>),
          El("style", None, None, None, <<>>),
          El("link", None, None, None, <<>>),
          El("link", None, None, None, <<>>),
          El("link", None, None, None, <<>>),
          El("link", None, None, None, <<>>),
          El("meta", None, None, None, <<>>),
          El("script", <<"schema.org">>, None, None, <<>>)>>]

\* _make_body: the body added to self.doc, with _make_header and
\* _make_content (a preamble without headings, no examples).
make_body(q) ==
    El("body", None, <<"book toc2 toc-left">>, None,
       <<El("div", <<"header">>, None, None,
            <<El("h1", None, None, None, <<Text(<<"title">>)>>)>>),
         El("div", <<"content">>, None, None,
            <<El("div", <<"preamble">>, None, None,
                 <<Div(<<"sectionbody">>, <<>>)>>),
              Div(<<"sect1">>, <<>>),
              make_component_models(q)>>)>>)

\* Mutant: the TOC is assembled before the body is rendered.
PassesTocBeforeBody == <<"_make_head", "_make_toc", "_make_body">>

\* The passes of make_html in the order it calls them.
Passes == <<"_make_head", "_make_body", "_make_toc">>

\* self.header exists once _make_body ran: the path of the latest one.
HasHeader(d) == Len(d.kids[2].kids) > 0
HeaderPath(d) == <<2, Len(d.kids[2].kids), 1>>

RECURSIVE TocTree(_, _)
\* The dominate tree of node n of the TOC table.
TocTree(t, n) ==
    El(t[n].tag, None, t[n].cls, None,
       (IF t[n].tag = "li" THEN <<A(t[n].text, t[n].href)>> ELSE <<>>)
       \o [k \in 1..Len(t[n].kids) |-> TocTree(t, t[n].kids[k])])

\* The block _make_toc adds to self.header.
TocBlock(t) ==
    El("div", <<"toc">>, <<"toc2">>, None,
       <<El("div", <<"toctitle">>, None, None,
            <<Text(<<"Table of Contents">>)>>),
         TocTree(t, 1)>>)

\* self.doc as it stands: the rendered tree with the TOC block, once made.
Document ==
    IF toc = <<>> THEN doc ELSE AddAt(doc, HeaderPath(doc), TocBlock(toc))

InitHtml ==
    /\ pc = "make_html"
    /\ model \in Queries
    /\ doc = InitDoc
    /\ ncalls = 1
    /\ passno = 0
    /\ headings = <<>>
    /\ pos = 0
    /\ section_numbers = InitSectionNumbers
    /\ index = InitIndex
    /\ previous_heading = NoHeading
    /\ value = Unbound
    /\ toc = <<>>
    /\ error = NoError
    /\ stack = <<>>
    /\ returned = <<>>

\* self._make_head(...)
MakeHead ==
    /\ pc = "make_html"
    /\ passno < Len(Passes)
    /\ Passes[passno + 1] = "_make_head"
    /\ doc' = make_head(doc)
    /\ passno' = passno + 1
    /\ UNCHANGED <<pc, model, ncalls, tocVars>>
    /\ UNCHANGED stack
    /\ UNCHANGED returned

\* self._make_body(): doc.add puts the body into the document's body.
MakeBody ==
    /\ pc = "make_html"
    /\ passno < Len(Passes)
    /\ Passes[passno + 1] = "_make_body"
    /\ doc' = AddAt(doc, <<2>>, make_body(model))
    /\ passno' = passno + 1
    /\ UNCHANGED <<pc, model, ncalls, tocVars>>
    /\ UNCHANGED stack
    /\ UNCHANGED returned

\* self._make_toc() up to its loop: the headings are collected, the TOC block
\* is created under self.header, the locals are initialised.
MakeTocBegin ==
    /\ pc = "make_html"
    /\ passno < Len(Passes)
    /\ Passes[passno + 1] = "_make_toc"
    /\ headings' = get_headings(doc)
    /\ pos' = 0
    /\ IF HasHeader(doc)
       THEN /\ toc' = InitToc
            /\ section_numbers' = InitSectionNumbers
            /\ index' = InitIndex
            /\ previous_heading' = NoHeading
            /\ pc' = "toc"
            /\ UNCHANGED <<value, error>>
       ELSE /\ error' = "AttributeError"
            /\ pc' = "raised"
            /\ UNCHANGED <<toc, section_numbers, index, previous_heading, value>>
    /\ UNCHANGED docVars
    /\ UNCHANGED stack
    /\ UNCHANGED returned

\* One iteration of the loop of _make_toc over the collected headings.
TocStep ==
    /\ pc = "toc"
    /\ passno < Len(Passes)
    /\ pos < Len(headings)
    /\ TocIter(headings[pos + 1])
    /\ UNCHANGED <<docVars, headings>>
    /\ UNCHANGED stack
    /\ UNCHANGED returned

\* The loop is over: _make_toc returns to make_html.
TocEnd ==
    /\ pc = "toc"
    /\ passno < Len(Passes)
    /\ pos = Len(headings)
    /\ pc' = "make_html"
    /\ passno' = passno + 1
    /\ UNCHANGED <<model, doc, ncalls, tocVars>>
    /\ UNCHANGED stack
    /\ UNCHANGED returned

\* return self.doc.render()
MakeHtmlReturn ==
    /\ pc = "make_html"
    /\ passno = Len(Passes)
    /\ pc' = "returned"
    /\ UNCHANGED <<docVars, tocVars>>
    /\ UNCHANGED stack
    /\ returned' = Append(returned, Document)

NextHtml ==
    MakeHead \/ MakeBody \/ MakeTocBegin \/ TocStep \/ TocEnd \/ MakeHtmlReturn

SpecHtml == InitHtml /\ [][NextHtml]_vars

\* The caller calls make_html on the same instance once more: self.doc is
\* the document of the calls before, TOC blocks included; the locals of
\* _make_toc are new.
MakeHtmlAgain ==
    /\ pc = "returned"
    /\ ncalls < MaxCalls
    /\ pc' = "make_html"
    /\ ncalls' = ncalls + 1
    /\ passno' = 0
    /\ doc' = Document
    /\ toc' = <<>>
    /\ headings' = <<>>
    /\ pos' = 0
    /\ section_numbers' = InitSectionNumbers
    /\ index' = InitIndex
    /\ previous_heading' = NoHeading
    /\ value' = Unbound
    /\ UNCHANGED <<model, error, stack, returned>>

NextHtmlRepeat == NextHtml \/ MakeHtmlAgain

SpecHtmlRepeat == InitHtml /\ [][NextHtmlRepeat]_vars

\* ------------------------------------------ _make_class_hierarchy, call by call

\* cls.subclasses as the query layer may supply it: any relation on the
\* classes, a class under itself and subclass cycles included.
SubclassLists ==
    {<<>>} \cup {<<x>> : x \in ClassNames}
           \cup {s \in ClassNames \X ClassNames : s[1] # s[2]}

SubclassRelations == [ClassNames -> SubclassLists]

\* A frame of _make_class_hierarchy(classes): its argument, the position of
\* its loop, the path of its ul in the tree.
Frame(classes, path) == [classes |-> classes, i |-> 1, path |-> path]

HierarchyItem(q, cls, kids) ==
    El("li", None, None, None,
       <<El("span", None, HierarchyMarker(q, cls), None, <<>>),
         HierarchyLink(q, cls)>> \o kids)

InitHierarchy ==
    /\ pc = "hierarchy"
    /\ \E sub \in SubclassRelations, classes \in {<<"A">>, <<"A", "B">>} :
          /\ model = [class_index |-> {ClassIri("A")}, subclasses |-> sub,
                      classes |-> classes]
          /\ stack = <<Frame(classes, <<>>)>>
    /\ doc = El("ul", None, <<"nested-hierarchy-list">>, None, <<>>)
    /\ ncalls = 0
    /\ passno = 0
    /\ InitTocState
    /\ returned = <<>>

\* An iteration of "for cls in classes" for a class without subclasses.
HierarchyLeaf ==
    /\ pc = "hierarchy"
    /\ LET n == Len(stack)
           top == stack[n]
       IN  /\ top.i <= Len(top.classes)
           /\ ~HierarchyDescends(model, top.classes[top.i])
           /\ doc' = AddAt(doc, top.path,
                           HierarchyItem(model, top.classes[top.i], <<>>))
           /\ stack' = [stack EXCEPT ![n].i = @ + 1]
    /\ UNCHANGED <<pc, model, ncalls, passno, tocVars>>
    /\ UNCHANGED returned

\* An iteration for a class with subclasses: the recursive call is entered.
HierarchyCall ==
    /\ pc = "hierarchy"
    /\ Len(stack) < MaxDepth
    /\ LET n == Len(stack)
           top == stack[n]
           cls == top.classes[top.i]
       IN  /\ top.i <= Len(top.classes)
           /\ HierarchyDescends(model, cls)
           /\ doc' = AddAt(doc, top.path,
                  HierarchyItem(model, cls,
                      <<El("ul", None, <<"nested-hierarchy-list">>, None, <<>>)>>))
           /\ stack' = Append([stack EXCEPT ![n].i = @ + 1],
                              Frame(model.subclasses[cls],
                                    top.path \o <<top.i, 3>>))
    /\ UNCHANGED <<pc, model, ncalls, passno, tocVars>>
    /\ UNCHANGED returned

\* The loop of the innermost call is over: the call returns.
HierarchyReturn ==
    /\ pc = "hierarchy"
    /\ LET n == Len(stack)
           top == stack[n]
       IN  /\ top.i > Len(top.classes)
           /\ stack' = SubSeq(stack, 1, n - 1)
           /\ pc' = IF n = 1 THEN "done" ELSE pc
    /\ UNCHANGED <<model, doc, ncalls, passno, tocVars>>
    /\ UNCHANGED returned

NextHierarchy == HierarchyLeaf \/ HierarchyCall \/ HierarchyReturn

SpecHierarchy == InitHierarchy /\ [][NextHierarchy]_vars

\* The interpreter runs the next step of a call that has one.
FairSpecHierarchy == SpecHierarchy /\ WF_vars(NextHierarchy)

\* ------------------------------------------------- reading the TOC that was built

\* Level of the i-th heading of the document.
Lvl(i) == HeadingLevel(headings[i])

\* The li nodes of the table in creation order: the i-th is the entry made
\* for the i-th heading.
Entries == SelectSeq([n \in 1..Len(toc) |-> n], LAMBDA n : toc[n].tag = "li")
EntryOf(i) == Entries[i]

\* The node a TOC node was added to (0 for the top-level list).
ParentOfNode(n) ==
    IF \E q \in 1..Len(toc) : n \in Range(toc[q].kids)
    THEN CHOOSE q \in 1..Len(toc) : n \in Range(toc[q].kids)
    ELSE 0

\* The document starts at outline depth 1 and never descends by more than one
\* depth at a time.
NoSkip ==
    /\ Len(headings) > 0 => Lvl(1) = 2
    /\ \A i \in 2..Len(headings) : Lvl(i) <= Lvl(i - 1) + 1

\* The nearest heading before the i-th of smaller depth (0 if there is none).
ParentHeading(i) ==
    LET above == {j \in 1..(i - 1) : Lvl(j) < Lvl(i)}
    IN  IF above = {} THEN 0 ELSE CHOOSE j \in above : \A k \in above : k <= j

RECURSIVE OutlineNumber(_)
\* Conventional outline numbering: the parent's number, then the 1-based
\* position among the headings of the same depth since that parent.
OutlineNumber(i) ==
    LET p == ParentHeading(i)
        k == Cardinality({j \in (p + 1)..i : Lvl(j) = Lvl(i)})
    IN  IF p = 0 THEN <<k>> ELSE OutlineNumber(p) \o <<k>>

\* "1.2." followed by the space that separates it from the label.
FormatOutline(num) ==
    Flatten([c \in 1..Len(num) |-> <<ToString(num[c]), ".">>]) \o <<" ">>

\* The texts of the entries, in heading order.
EntryTexts == [i \in 1..Len(Entries) |-> toc[EntryOf(i)].text]

\* C1: for a document that starts at depth 1 and never skips a depth on the
\* way down, the section number of every entry is the conventional outline
\* number of its heading (followed by the heading's label).
C1_OutlineNumbering ==
    NoSkip =>
        \A i \in 1..pos :
            toc[EntryOf(i)].text = FormatOutline(OutlineNumber(i)) \o SynthLabel(i)

\* The depths [1,2,2,1,2,3,2] were numbered 1., 1.1., 1.2., 2., 2.1., 2.1.1., 2.2.
C1_Witness ==
    /\ pc = "done"
    /\ [i \in 1..Len(headings) |-> Lvl(i) - 1] = <<1, 2, 2, 1, 2, 3, 2>>
    /\ EntryTexts = << <<"1", ".", " ", "L1">>,
                       <<"1", ".", "1", ".", " ", "L2">>,
                       <<"1", ".", "2", ".", " ", "L3">>,
                       <<"2", ".", " ", "L4">>,
                       <<"2", ".", "1", ".", " ", "L5">>,
                       <<"2", ".", "1", ".", "1", ".", " ", "L6">>,
                       <<"2", ".", "2", ".", " ", "L7">> >>

\* C2: a heading that directly follows a shallower heading sets the counter of
\* its depth to 1, and the last component of its section number is 1.
C2_ResetOnDescent ==
    /\ \A i \in 2..pos :
          Lvl(i) > Lvl(i - 1) =>
              toc[EntryOf(i)].text[2 * (Lvl(i) - 1) - 1] = "1"
    /\ LET n == Len(headings)
       IN  (n >= 2 /\ Lvl(n) > Lvl(n - 1)) => section_numbers[Lvl(n) - 1] = 1

\* The depths [1,2,1,2] were numbered 1., 1.1., 2., 2.1.: the depth-2 counter,
\* left at 1 by the first branch, was not continued to 2.
C2_Witness ==
    /\ pc = "done"
    /\ [i \in 1..Len(headings) |-> Lvl(i) - 1] = <<1, 2, 1, 2>>
    /\ EntryTexts = << <<"1", ".", " ", "L1">>,
                       <<"1", ".", "1", ".", " ", "L2">>,
                       <<"2", ".", " ", "L3">>,
                       <<"2", ".", "1", ".", " ", "L4">> >>

\* C3: for a document that starts at depth 1 and never skips a depth on the
\* way down, the items of the top-level list are exactly the entries of the
\* depth-1 headings, and the entry of a deeper heading is an item of a nested
\* list that is a child of the entry of the nearest shallower heading before it.
C3_TreeMirrorsNesting ==
    NoSkip =>
        /\ toc[1].kids = SelectSeq(Entries, LAMBDA e :
               \E i \in 1..pos : EntryOf(i) = e /\ Lvl(i) = 2)
        /\ \A i \in 1..pos :
              Lvl(i) > 2 =>
                  LET list == ParentOfNode(EntryOf(i))
                  IN  /\ list # 0
                      /\ toc[list].tag = "ul"
                      /\ list # 1
                      /\ ParentOfNode(list) = EntryOf(ParentHeading(i))

\* The heading holds a label of its own in its children.
HasOwnLabel(h) ==
    \/ Len(h.kids) = 1 /\ h.kids[1].tag = "#text"
    \/ Len(h.kids) > 1 /\ HasChildren(h.kids[2]) /\ Len(h.kids[2].kids) > 0

\* Level of the heading before the one that is being processed.
PrevLevelAt(n) == IF n = 1 THEN 2 ELSE Lvl(n - 1)

\* C8: the href of an entry is "#" + id when its heading has an id and "#"
\* when it has none; every heading whose iteration completed has its entry,
\* an entry without id carries its section number and label, and an exception
\* is always one of the label or the placement, never of the id.
C8_AbsentIdDegrades ==
    /\ Len(Entries) = pos
    /\ \A i \in 1..pos :
          toc[EntryOf(i)].href =
              IF headings[i].id # None THEN <<"#">> \o headings[i].id
              ELSE <<"#">>
    /\ (pos > 0 /\ pos = Len(headings) /\ headings[pos].id = None
          /\ HasOwnLabel(headings[pos])) =>
          toc[EntryOf(pos)].text =
              SectionNumber(section_numbers, Lvl(pos)) \o SynthLabel(pos)
    /\ pc = "raised" =>
          LET n == pos + 1
              h == headings[n]
          IN  \/ /\ error = "AttributeError"
                 /\ Len(h.kids) > 1 /\ ~HasChildren(h.kids[2])
              \/ /\ error = "UnboundLocalError"
                 /\ n = 1 /\ Len(h.kids) > 1 /\ Len(h.kids[2].kids) = 0
              \/ /\ error = "KeyError"
                 /\ Lvl(n) > PrevLevelAt(n) + 1

\* A heading without id, after one with an id, got the entry "1.1. L2" with
\* the href "#".
C8_Witness ==
    /\ pc = "done"
    /\ pos = 2
    /\ headings[1].id = SynthId(1)
    /\ headings[2].id = None
    /\ toc[EntryOf(1)].href = <<"#", "l1">>
    /\ toc[EntryOf(2)].href = <<"#">>
    /\ toc[EntryOf(2)].text = <<"1", ".", "1", ".", " ", "L2">>

\* ------------------------------------------------------ reading a document tree

\* p comes before q in a pre-order walk that visits children in insertion
\* order (p is a proper prefix of q, or smaller at the first difference).
RECURSIVE PathBefore(_, _)
PathBefore(p, q) ==
    IF p = <<>> THEN q # <<>>
    ELSE IF q = <<>> THEN FALSE
    ELSE IF Head(p) # Head(q) THEN Head(p) < Head(q)
    ELSE PathBefore(Tail(p), Tail(q))

RECURSIVE SortPaths(_)
\* A set of paths as the sequence a pre-order walk meets them in.
SortPaths(S) ==
    IF S = {} THEN <<>>
    ELSE LET first == CHOOSE p \in S : \A q \in S \ {p} : PathBefore(p, q)
         IN  <<first>> \o SortPaths(S \ {first})

\* The tags the claims call headings.
H234 == {"h2", "h3", "h4"}

\* The paths of the h2/h3/h4 nodes that are proper descendants of the root and
\* have no h2/h3/h4 ancestor below the root.
OutermostHeadingPaths(root) ==
    {p \in Paths(root) :
        /\ p # <<>>
        /\ NodeAt(root, p).tag \in H234
        /\ \A k \in 1..(Len(p) - 1) : NodeAt(root, SubSeq(p, 1, k)).tag \notin H234}

\* C10: get_headings returns exactly the outermost h2/h3/h4 nodes below the
\* root, in pre-order with children in insertion order; it returns the empty
\* list for a node without children; the call leaves the tree unchanged.
C10_GetHeadings ==
    /\ [](pc = "collected" =>
            LET order == SortPaths(OutermostHeadingPaths(doc))
            IN  /\ headings = [i \in 1..Len(order) |-> NodeAt(doc, order[i])]
                /\ doc.kids = <<>> => headings = <<>>)
    /\ [][pc' = "collected" => doc' = doc]_vars

\* A tree in which a heading holds a heading (not collected) and a container
\* that follows holds a heading (collected).
C10_Witness ==
    /\ pc = "collected"
    /\ doc.tag = "div"
    /\ Len(doc.kids) = 2
    /\ doc.kids[1].tag = "h2" /\ Len(doc.kids[1].kids) = 1
    /\ doc.kids[1].kids[1].tag = "h3"
    /\ doc.kids[2].tag = "div" /\ Len(doc.kids[2].kids) = 1
    /\ doc.kids[2].kids[1].tag = "h4"
    /\ headings = <<doc.kids[1], doc.kids[2].kids[1]>>

RECURSIVE AllNodes(_)
RECURSIVE NodesOf(_)
\* The nodes of a tree in document order.
AllNodes(node) == <<node>> \o NodesOf(node.kids)

\* The nodes of a sequence of trees in document order.
NodesOf(nodes) ==
    IF nodes = <<>> THEN <<>>
    ELSE AllNodes(Head(nodes)) \o NodesOf(Tail(nodes))

\* The a nodes of a tree in document order.
LinksIn(node) == SelectSeq(AllNodes(node), LAMBDA n : n.tag = "a")

\* What a link is to its reader: target, text, internal or external.
LinkView(a) ==
    [href |-> a.href,
     text |-> IF a.kids # <<>> THEN StrOf(a.kids[1]) ELSE <<>>,
     external |-> a.cls = <<"external-link">>]

LinkViews(node) ==
    LET links == LinksIn(node)
    IN  [i \in 1..Len(links) |-> LinkView(links[i])]

\* The link a reference to a class resolves to: internal to its heading when
\* its iri is in class_index, external to its iri otherwise.
Resolved(q, ref) ==
    IF ClassIri(ref) \in q.class_index
    THEN [href |-> <<"#">> \o make_html_fragment(CLASS_STRING(Name(ref))),
          text |-> Name(ref), external |-> FALSE]
    ELSE [href |-> ClassIri(ref), text |-> Name(ref), external |-> TRUE]

ResolvedAll(q, refs) == [i \in 1..Len(refs) |-> Resolved(q, refs[i])]

\* The class and property sections of a document, in document order.
Sections(d) == SelectSeq(AllNodes(d), LAMBDA n : n.cls = <<"sect3">>)

\* The classes and properties the component models list, in rendering order.
RenderedEntities(q) ==
    Flatten([m \in 1..Len(q.component_models) |->
        LET cm == q.component_models[m]
            props == cm.annotation_properties \o cm.datatype_properties
                     \o cm.object_properties \o cm.ontology_properties
        IN  [i \in 1..Len(cm.classes) |-> [kind |-> "class", ref |-> cm.classes[i]]]
            \o [i \in 1..Len(props) |-> [kind |-> "property", ref |-> props[i]]]])

NoBlock == El("none", None, None, None, <<>>)

\* The child of a section that follows the child of the given tag and text.
BlockAfter(section, tag, title) ==
    LET ks == section.kids
        at == {k \in 1..(Len(ks) - 1) :
                  ks[k].tag = tag /\ ks[k].kids = <<Text(title)>>}
    IN  IF at = {} THEN NoBlock ELSE ks[(CHOOSE k \in at : TRUE) + 1]

\* The body rows of the properties table of a class section.
TableRows(section) ==
    SelectSeq(AllNodes(BlockAfter(section, "h5", <<"Properties">>)),
              LAMBDA n : n.tag = "tr" /\ n.kids # <<>> /\ n.kids[1].tag = "td")

\* The label a heading with a permalink shows.
HeadingLabel(h) ==
    IF Len(h.kids) > 1 /\ Len(h.kids[2].kids) > 0 THEN StrOf(h.kids[2].kids[1])
    ELSE IF Len(h.kids) = 1 THEN StrOf(h.kids[1]) ELSE <<>>

\* C4: at every class-reference site of a class or property section the link
\* is internal exactly when the iri is in class_index: its href is "#" and the
\* fragment of the label the class heading is rendered with, its text the
\* name; otherwise it is an external link to the iri with the name as text.
C4_ReferenceLinks ==
    HasHeader(doc) =>
        LET q == model
            secs == Sections(doc)
            ents == RenderedEntities(q)
        IN  /\ Len(secs) = Len(ents)
            /\ \A k \in 1..Len(secs) :
                  LET sec == secs[k]
                      ref == ents[k].ref
                  IN  IF ents[k].kind = "class"
                      THEN /\ HeadingLabel(sec.kids[1]) = CLASS_STRING(Name(ref))
                           /\ sec.kids[1].id = make_html_fragment(HeadingLabel(sec.kids[1]))
                           /\ ClassIri(ref) \in q.class_index =>
                                 Resolved(q, ref).href = <<"#">> \o sec.kids[1].id
                           /\ LinkViews(BlockAfter(sec, "h5", <<"Subclass of">>))
                                 = ResolvedAll(q, q.superclasses[ref])
                           /\ LinkViews(BlockAfter(sec, "h5", <<"Superclass of">>))
                                 = ResolvedAll(q, q.subclasses[ref])
                           /\ LET rows == TableRows(sec)
                              IN  /\ Len(rows) = Len(q.properties[ref])
                                  /\ \A r \in 1..Len(rows) :
                                        LET row == rows[r]
                                            property == q.properties[ref][r]
                                        IN  /\ LinkViews(row.kids[4]) =
                                                   IF property.value_type # NoRef
                                                   THEN <<Resolved(q, property.value_type)>>
                                                   ELSE <<>>
                                            /\ LinkViews(row.kids[5]) =
                                                   ResolvedAll(q, property.value_class_types)
                      ELSE /\ LinkViews(BlockAfter(sec, "p", <<"Domain includes:">>))
                                 = ResolvedAll(q, q.domain_includes)
                           /\ LinkViews(BlockAfter(sec, "p", <<"Range includes:">>))
                                 = ResolvedAll(q, q.range_includes)

\* The section of class A, whose subclasses are B (documented) and C (not):
\* "Superclass of" links B internally and C externally, and the value class
\* types of its property row link C externally and A internally.
C4_Witness ==
    /\ pc = "returned"
    /\ model.class_index = {ClassIri("A"), ClassIri("B")}
    /\ model.subclasses["A"] = <<"B", "C">>
    /\ model.properties["A"] # <<>>
    /\ LET sec == Sections(doc)[1]
           superclass_of == BlockAfter(sec, "h5", <<"Superclass of">>)
           row == TableRows(sec)[1]
       IN  /\ LinkViews(superclass_of) =
                 <<[href |-> <<"#", "b">>, text |-> <<"B">>, external |-> FALSE],
                   [href |-> <<"http://example.org/cls/C">>, text |-> <<"C">>,
                    external |-> TRUE]>>
           /\ LinkViews(row.kids[5]) =
                 <<[href |-> <<"http://example.org/cls/C">>, text |-> <<"C">>,
                    external |-> TRUE],
                   [href |-> <<"#", "a">>, text |-> <<"A">>, external |-> FALSE]>>

\* The class items of the class-hierarchy view, in document order.
HierarchyItems(d) ==
    LET lists == SelectSeq(AllNodes(d),
                           LAMBDA n : n.cls = <<"nested-hierarchy-list">>)
    IN  Flatten([i \in 1..Len(lists) |-> lists[i].kids])

\* The class a class item stands for.
ItemClass(item) == StrOf(item.kids[2].kids[1])[1]

\* C5: the link of a class item of the hierarchy view is the resolved
\* reference: a class outside class_index is a leaf entry with an external
\* link to its iri, a class in class_index has an internal link to its heading.
C5_HierarchyLinkResolved ==
    HasHeader(doc) =>
        \A item \in Range(HierarchyItems(doc)) :
            LET cls == ItemClass(item)
            IN  /\ LinkView(item.kids[2]) = Resolved(model, cls)
                /\ ClassIri(cls) \notin model.class_index =>
                      item.kids[1].cls = <<"hierarchy-node-leaf">>

\* C6: a class item has the branch marker exactly when one of its subclasses
\* has its iri in class_index, and the leaf marker otherwise.
C6_HierarchyMarker ==
    HasHeader(doc) =>
        \A item \in Range(HierarchyItems(doc)) :
            LET cls == ItemClass(item)
                valid == \E s \in Range(model.subclasses[cls]) :
                             ClassIri(s) \in model.class_index
            IN  /\ item.kids[1].tag = "span"
                /\ item.kids[1].cls = IF valid THEN <<"hierarchy-node">>
                                      ELSE <<"hierarchy-node-leaf">>

\* Class A, whose only subclass C is not documented, is a leaf item although
\* its subclasses are not empty: the nested list with C follows its link.
C6_Witness ==
    /\ pc = "returned"
    /\ model.class_index = {ClassIri("A")}
    /\ model.subclasses["A"] = <<"C">>
    /\ LET items == HierarchyItems(doc)
       IN  /\ Len(items) = 2
           /\ ItemClass(items[1]) = "A"
           /\ items[1].kids[1].cls = <<"hierarchy-node-leaf">>
           /\ Len(items[1].kids) = 3

\* The anchor ids the headings of a document carry.
AnchorIds(d) ==
    {n.id : n \in {m \in Range(AllNodes(d)) :
                      m.tag \in {"h1", "h2", "h3", "h4", "h5", "h6"} /\ m.id # None}}

\* C7: every internal link of the rendered body targets the anchor id of a
\* heading of the same document.
C7_InternalLinksResolve ==
    HasHeader(doc) =>
        LET targets == {<<"#">> \o id : id \in AnchorIds(Document)}
        IN  \A a \in Range(LinksIn(doc)) :
                (a.href # None /\ Head(a.href) = "#") => a.href \in targets

\* Every h2/h3/h4 node of a tree, in document order.
AllHeadings(node) == SelectSeq(AllNodes(node), LAMBDA n : n.tag \in H234)

\* C9: _make_toc starts only after the head and the whole body are rendered,
\* so the collected headings are all the headings of the body; the TOC block
\* is added to the header and holds no heading, and with it the document has
\* the same headings as before.
C9_PassOrder ==
    /\ HasHeader(doc) => Len(doc.kids[1].kids) > 1
    /\ (pc \in {"toc", "raised"} \/ toc # <<>> \/ passno = Len(Passes)) =>
          /\ HasHeader(doc)
          /\ headings = AllHeadings(doc)
    /\ toc # <<>> =>
          /\ AllHeadings(TocBlock(toc)) = <<>>
          /\ get_headings(Document) = headings
          /\ AllHeadings(Document) = headings
          /\ NodeAt(Document, HeaderPath(doc)).kids =
                 Append(NodeAt(doc, HeaderPath(doc)).kids, TocBlock(toc))

\* make_html returned a document of two component models: its five or more
\* headings were all collected and each has its entry in the TOC block.
C9_Witness ==
    /\ pc = "returned"
    /\ Len(model.component_models) = 2
    /\ Len(headings) >= 5
    /\ headings = AllHeadings(doc)
    /\ Len(Entries) = Len(headings)
    /\ Len(LinksIn(TocBlock(toc))) = Len(headings)

\* ------------------------------------------------ the placement of TOC entries

\* The levels of the headings met so far, as outline depths.
Depths == [i \in 1..Len(headings) |-> Lvl(i) - 1]

\* The latest heading before the i-th of the given level (0 if there is none).
LastAtLevel(i, level) ==
    LET same == {j \in 1..(i - 1) : Lvl(j) = level}
    IN  IF same = {} THEN 0 ELSE CHOOSE j \in same : \A k \in same : k <= j

\* C11: the entry of a heading of the same depth as the heading right before
\* it is an item of the list that holds the entry of that heading.
C11_SameDepthSibling ==
    \A i \in 2..pos :
        Lvl(i) = Lvl(i - 1) =>
            ParentOfNode(EntryOf(i)) = ParentOfNode(EntryOf(i - 1))

\* C12: the entry of a heading deeper than the heading right before it is the
\* item of a new nested list, that list is a child of the entry of the latest
\* heading one depth above, and it is the insertion point recorded for the
\* new depth.
C12_DescentNestsUnderEntry ==
    \A i \in 2..pos :
        Lvl(i) > Lvl(i - 1) =>
            LET list == ParentOfNode(EntryOf(i))
            IN  /\ toc[list].tag = "ul"
                /\ toc[list].kids[1] = EntryOf(i)
                /\ ParentOfNode(list) = EntryOf(LastAtLevel(i, Lvl(i) - 1))
                /\ i = pos => index[Lvl(i)] = list

\* C13: a heading shallower than the heading right before it always finds its
\* insertion point, and its entry is an item of the list that holds the entry
\* of the latest earlier heading of its depth under the same parent.
C13_AscentRejoinsList ==
    /\ (pc = "raised" /\ pos >= 1) => ~(Lvl(pos + 1) < Lvl(pos))
    /\ \A i \in 2..pos :
          Lvl(i) < Lvl(i - 1) =>
              LET j == LastAtLevel(i, Lvl(i))
              IN  (j # 0 /\ ParentHeading(j) = ParentHeading(i)) =>
                      ParentOfNode(EntryOf(i)) = ParentOfNode(EntryOf(j))

\* C14: processing a heading of depth d changes the counter of depth d only:
\* to 1 on a descending step, to its value plus 1 on a same-depth or ascending
\* step; the counters of the other depths keep their values.
C14_OnlyOwnCounter ==
    [][Len(headings') = Len(headings) + 1 =>
          LET n == Len(headings')
              level == HeadingLevel(headings'[n])
              previous == IF n = 1 THEN 2 ELSE HeadingLevel(headings'[n - 1])
              d == level - 1
          IN  /\ section_numbers'[d] =
                     IF previous < level THEN 1 ELSE section_numbers[d] + 1
              /\ \A e \in (1..4) \ {d} : section_numbers'[e] = section_numbers[e]
      ]_vars

\* After the depths [1,2,2,1] the counter of depth 1 is 2 and the counter of
\* depth 2, left at 2 by the headings before the ascent, still is 2.
C14_Witness ==
    /\ pos = 4
    /\ Depths = <<1, 2, 2, 1>>
    /\ section_numbers = [d \in 1..4 |-> IF d <= 2 THEN 2 ELSE 0]

\* The label a heading shows: the text its rendered children hold.
OwnLabel(h) ==
    LET texts == SelectSeq(AllNodes(h), LAMBDA n : n.tag = "#text")
    IN  Flatten([k \in 1..Len(texts) |-> texts[k].text])

\* The counters of depths 1..d, each followed by a dot, then one space.
CountersUpTo(sn, d) ==
    Flatten([k \in 1..d |-> <<ToString(sn[k]), ".">>]) \o <<" ">>

\* C15: the text of the entry of the heading just processed, of depth d, is
\* the d counters of depths 1..d, each followed by a dot, one space, and the
\* heading's own label, whatever the shape of the heading's children.
C15_EntryTextOwnLabel ==
    (pos >= 1 /\ pos = Len(headings)) =>
        toc[EntryOf(pos)].text =
            CountersUpTo(section_numbers, Lvl(pos) - 1) \o OwnLabel(headings[pos])

\* --------------------------------------------- the shape of the hierarchy view

\* The classes the items of a list of the hierarchy view stand for.
ListClasses(list) == [k \in 1..Len(list.kids) |-> ItemClass(list.kids[k])]

\* The items of the component models in the hierarchy view.
ModuleItems(d) ==
    LET lists == SelectSeq(AllNodes(d), LAMBDA n : n.cls = <<"hierarchy-list">>)
    IN  Flatten([i \in 1..Len(lists) |-> lists[i].kids])

\* C16: a class item holds a nested list exactly when the subclasses of its
\* class are not empty, documented or not; the nested list has one item per
\* subclass in the order of subclasses, and the list of a component model has
\* one item per class it was given, in their order.
C16_NestedListShape ==
    HasHeader(doc) =>
        /\ \A item \in Range(HierarchyItems(doc)) :
              LET subclasses == model.subclasses[ItemClass(item)]
              IN  IF subclasses # <<>>
                  THEN /\ Len(item.kids) = 3
                       /\ item.kids[3].tag = "ul"
                       /\ item.kids[3].cls = <<"nested-hierarchy-list">>
                       /\ ListClasses(item.kids[3]) = subclasses
                  ELSE Len(item.kids) = 2
        /\ LET items == ModuleItems(doc)
           IN  /\ Len(items) = Len(model.component_models)
               /\ \A m \in 1..Len(items) :
                     LET classes == model.component_models[m].top_level_classes
                     IN  IF classes # <<>>
                         THEN /\ Len(items[m].kids) = 3
                              /\ ListClasses(items[m].kids[3]) = classes
                         ELSE Len(items[m].kids) = 2

\* Class A is documented and its subclasses B and C are not: its item holds
\* the list of B and C, in this order, and their items hold no list.
C16_Witness ==
    /\ pc = "returned"
    /\ model.class_index = {ClassIri("A")}
    /\ model.subclasses["A"] = <<"B", "C">>
    /\ model.subclasses["B"] = <<>>
    /\ LET items == HierarchyItems(doc)
       IN  /\ Len(items) = 3
           /\ ItemClass(items[1]) = "A"
           /\ ListClasses(items[1].kids[3]) = <<"B", "C">>
           /\ Len(items[1].kids[3].kids[1].kids) = 2

\* ---------------------------------------------- termination of the hierarchy

RECURSIVE SubclassClosure(_, _)
\* The classes of S and all the classes below them.
SubclassClosure(sub, S) ==
    LET T == S \cup UNION {Range(sub[c]) : c \in S}
    IN  IF T = S THEN S ELSE SubclassClosure(sub, T)

\* A class that is below itself can be reached from the classes given.
CycleReachable ==
    \E c \in SubclassClosure(model.subclasses, Range(model.classes)) :
        c \in SubclassClosure(model.subclasses, Range(model.subclasses[c]))

\* C17: _make_class_hierarchy returns if and only if no subclass cycle can be
\* reached from the classes it is given; when one can be reached it never
\* returns and its calls nest deeper than any bound.
C17_TerminatesIffNoCycle ==
    /\ [](CycleReachable => pc # "done")
    /\ (~CycleReachable) ~> (pc = "done")
    /\ CycleReachable ~> (Len(stack) = MaxDepth)

\* A is below B and B below A: the calls for [A], [B], [A], [B], ... are
\* nested as deep as the model follows them.
C17_Witness ==
    /\ pc = "hierarchy"
    /\ model.classes = <<"A">>
    /\ model.subclasses["A"] = <<"B">>
    /\ model.subclasses["B"] = <<"A">>
    /\ Len(stack) = MaxDepth
    /\ \A k \in 1..Len(stack) :
          stack[k].classes = IF k % 2 = 1 THEN <<"A">> ELSE <<"B">>

\* ------------------------------------------------------- completion of _make_toc

\* C18: _make_toc raises for no sequence of headings of levels 2, 3 and 4:
\* every placement finds its insertion point, and every heading gets its entry.
C18_TocNeverRaises ==
    /\ pc # "raised"
    /\ error = NoError
    /\ Len(Entries) = Len(headings)

RECURSIVE TocPreorder(_)
RECURSIVE TocPreorderOf(_)
\* The entries below node n of the TOC block, n included, in pre-order.
TocPreorder(n) ==
    (IF toc[n].tag = "li" THEN <<n>> ELSE <<>>) \o TocPreorderOf(toc[n].kids)

TocPreorderOf(nodes) ==
    IF nodes = <<>> THEN <<>>
    ELSE TocPreorder(Head(nodes)) \o TocPreorderOf(Tail(nodes))

\* No heading is more than one depth deeper than the heading before it.
NoDeeperThanOne == \A i \in 2..Len(headings) : Lvl(i) <= Lvl(i - 1) + 1

\* C19: when no heading is more than one depth deeper than the heading before
\* it, the TOC holds exactly one entry per heading, and the entries read in
\* pre-order are the entries of the headings in document order.
C19_OneEntryPerHeadingInOrder ==
    NoDeeperThanOne =>
        /\ Len(Entries) = Len(headings)
        /\ TocPreorder(1) = Entries
        /\ \A i \in 1..Len(Entries) :
              toc[EntryOf(i)].href = <<"#">> \o headings[i].id

\* ------------------------------------------------------- the anchors of headings

\* The h2/h3/h4 headings of a document that carry an anchor id: the headings
\* of the hierarchy view, of the component models and their groups, of the
\* classes and of the properties.
AnchoredHeadings(d) == SelectSeq(AllHeadings(d), LAMBDA h : h.id # None)

\* C20: no two of the headings rendered with an anchor id carry the same id;
\* a class and a property of the same name have different ids.
C20_AnchorIdsDistinct ==
    HasHeader(doc) =>
        LET hs == AnchoredHeadings(doc)
        IN  \A i \in 1..Len(hs) : \A j \in 1..Len(hs) :
                hs[i].id = hs[j].id => i = j

\* ------------------------------------------------------- make_html called again

\* The body elements self.doc holds.
Bodies(d) == d.kids[2].kids

\* C21: every call of make_html on an instance returns the document the first
\* call returned: it has one body, and its TOC has one entry per heading,
\* numbered from 1.
C21_MakeHtmlRepeatable ==
    \A k \in 1..Len(returned) :
        /\ returned[k] = returned[1]
        /\ Len(Bodies(returned[k])) = 1
        /\ Len(LinksIn(NodeAt(returned[k], <<2, 1, 1>>))) =
               Len(AllHeadings(returned[k]))

====
